---- MODULE Spec2Model ----
(***************************************************************************)
(* Sudoku learning software (src/main.py): the constraint checker          *)
(* is_valid, the backtracking solver solve_sudoku, the challenge-mode      *)
(* puzzle generator and the main window that drives the solver.            *)
(*                                                                         *)
(* A board is a sequence of n rows of n cells; a cell is a string, ""      *)
(* being the empty cell.  Rows and columns keep the 0-based numbering of   *)
(* the source; board[row + 1][col + 1] is the source's board[row][col].    *)
(***************************************************************************)
EXTENDS Integers, Sequences, FiniteSets, TLC

VARIABLES
  board,      \* the grid solve_sudoku / is_valid works on (mutated in place)
  symbols,    \* the alphabet passed to the solver
  input,      \* the board as it was when the top-level call was made
  stack,      \* active solve_sudoku calls, outermost first
  pc,         \* position of the running call: "call" "scan" "loop" "return" "done"
  ret,        \* value returned by the call that finished last: "True", "False"
              \* ("none" before any call has returned)
  arg,        \* arguments of the last is_valid call (<<>> before)
  valid,      \* what that is_valid call returned: "True", "False" ("none" before)
  win,        \* the main window (SudokuSolverApp): its fields
  history,    \* the main window's history list
  challenge   \* the challenge window (ChallengeMode): its fields, << >> when
              \* no challenge window was opened

solverVars == <<board, symbols, input, stack, pc, ret, arg, valid>>

appVars == <<win, history, challenge>>

vars == <<solverVars, appVars>>

----------------------------------------------------------------------------
(* Bounds of the model *)

\* largest box size k whose empty board is given to the solver
MaxBox == 3
\* cells pre-filled in the sparse input boards
MaxFilled == 3
\* cells of the solved grid overwritten in the dense input boards
MaxEdits == 2

----------------------------------------------------------------------------
(* Values *)

\* the characters a user can type as symbols; the first nine are the
\* default "123456789" the dialogs propose
SymbolPool ==
  << "1", "2", "3", "4", "5", "6", "7", "8", "9", "A", "B", "C", "D", "E",
     "F", "G", "H", "I", "J", "K", "L", "M", "N", "O", "P" >>

\* list(s) for a string of n pairwise distinct characters
Alphabet(n) == SubSeq(SymbolPool, 1, n)

\* [['' for _ in range(n)] for _ in range(n)]
EmptyBoard(n) == [r \in 1..n |-> [c \in 1..n |-> ""]]

\* int(n ** 0.5): the floor of the square root
isqrt(n) == CHOOSE s \in 0..n : s * s <= n /\ (s + 1) * (s + 1) > n

----------------------------------------------------------------------------
(* is_valid, src/main.py 15-39 *)

\* is_valid without the column scan of lines 25-27
is_valid_nocol(b, row, col, num, syms) ==
  LET n == Len(b)
      box_size == isqrt(n)
      box_row == (row \div box_size) * box_size
      box_col == (col \div box_size) * box_size
  IN  IF \E i \in 0..(n - 1) : b[row + 1][i + 1] = num THEN FALSE
      ELSE IF \E i \in 0..(box_size - 1) : \E j \in 0..(box_size - 1) :
                b[box_row + i + 1][box_col + j + 1] = num THEN FALSE
      ELSE TRUE

\* is_valid without the block scan of lines 34-37
is_valid_noblock(b, row, col, num, syms) ==
  LET n == Len(b)
  IN  IF \E i \in 0..(n - 1) : b[row + 1][i + 1] = num THEN FALSE
      ELSE IF \E i \in 0..(n - 1) : b[i + 1][col + 1] = num THEN FALSE
      ELSE TRUE

is_valid(b, row, col, num, syms) ==
  LET n == Len(b)
      box_size == isqrt(n)
      box_row == (row \div box_size) * box_size
      box_col == (col \div box_size) * box_size
  IN  IF \E i \in 0..(n - 1) : b[row + 1][i + 1] = num THEN FALSE
      ELSE IF \E i \in 0..(n - 1) : b[i + 1][col + 1] = num THEN FALSE
      ELSE IF \E i \in 0..(box_size - 1) : \E j \in 0..(box_size - 1) :
                b[box_row + i + 1][box_col + j + 1] = num THEN FALSE
      ELSE TRUE

----------------------------------------------------------------------------
(* solve_sudoku, src/main.py 41-65, as one result *)

\* the nested for loops of lines 46-48: the first empty cell in row-major
\* order as <<row, col>>, or <<>> when the loops run to their end
FirstEmpty(b) ==
  LET n == Len(b)
      IsE(x) == b[(x \div n) + 1][(x % n) + 1] = ""
  IN  IF \E x \in 0..(n * n - 1) : IsE(x)
      THEN LET x == CHOOSE x \in 0..(n * n - 1) :
                      IsE(x) /\ \A y \in 0..(x - 1) : ~IsE(y)
           IN  << x \div n, x % n >>
      ELSE << >>

RECURSIVE Rejected(_, _, _, _, _)
RECURSIVE solve_sudoku(_, _)
RECURSIVE TrySymbols(_, _, _, _, _)

\* the iterations of the loop "for num in symbols" whose symbol is_valid
\* rejects (line 51), from the i-th symbol on: the index of the first
\* symbol it accepts, Len(syms) + 1 when the loop ends without one
Rejected(b, syms, row, col, i) ==
  IF i > Len(syms) THEN i
  ELSE IF is_valid(b, row, col, syms[i], syms) THEN i
  ELSE Rejected(b, syms, row, col, i + 1)

\* the call: [ok |-> the value returned, board |-> the board it leaves]
solve_sudoku(b, syms) ==
  LET e == FirstEmpty(b)
  IN  IF e = << >> THEN [ok |-> TRUE, board |-> b]
      ELSE TrySymbols(b, syms, e[1], e[2], 1)

\* the loop "for num in symbols" of lines 50-62, from the i-th symbol on:
\* the first symbol is_valid accepts is assigned and the call made; when
\* the call fails the cell is emptied and the loop goes on behind it
TrySymbols(b, syms, row, col, i) ==
  LET j == Rejected(b, syms, row, col, i)
  IN  IF j > Len(syms) THEN [ok |-> FALSE, board |-> b]
      ELSE LET r == solve_sudoku([b EXCEPT ![row + 1][col + 1] = syms[j]], syms)
           IN  IF r.ok THEN r
               ELSE TrySymbols([r.board EXCEPT ![row + 1][col + 1] = ""],
                               syms, row, col, j + 1)

----------------------------------------------------------------------------
(* solve_sudoku, src/main.py 41-65, call by call *)

\* A frame of the stack is one active call: the empty cell it found
\* (row = -1 while it has not scanned yet) and i, the index in symbols of
\* the symbol its for loop is at.

NewFrame == [row |-> -1, col |-> -1, i |-> 0]

Top == stack[Len(stack)]

Pop == SubSeq(stack, 1, Len(stack) - 1)

SetTop(f) == [stack EXCEPT ![Len(stack)] = f]

\* line 41: a call begins (the top-level one, or the recursive one of line 55)
Enter ==
  /\ pc = "call"
  /\ stack' = Append(stack, NewFrame)
  /\ pc' = "scan"
  /\ UNCHANGED <<board, symbols, input, ret, arg, valid, appVars>>

\* lines 46-48 and 65: find the first empty cell, or return True
Scan ==
  /\ pc = "scan"
  /\ LET e == FirstEmpty(board)
     IN  IF e = << >>
         THEN /\ stack' = Pop
              /\ ret' = "True"
              /\ pc' = "return"
         ELSE /\ stack' = SetTop([row |-> e[1], col |-> e[2], i |-> 1])
              /\ ret' = ret
              /\ pc' = "loop"
  /\ UNCHANGED <<board, symbols, input, arg, valid, appVars>>

\* Loop leaving the for loop before its last symbol
Loop_skiplast ==
  /\ pc = "loop"
  /\ LET f == Top
     IN  IF f.i >= Len(symbols)
         THEN /\ stack' = Pop
              /\ ret' = "False"
              /\ pc' = "return"
              /\ board' = board
         ELSE IF is_valid(board, f.row, f.col, symbols[f.i], symbols)
              THEN /\ board' = [board EXCEPT ![f.row + 1][f.col + 1] = symbols[f.i]]
                   /\ pc' = "call"
                   /\ UNCHANGED <<stack, ret>>
              ELSE /\ stack' = SetTop([f EXCEPT !.i = f.i + 1])
                   /\ UNCHANGED <<board, pc, ret>>
  /\ UNCHANGED <<symbols, input, arg, valid, appVars>>

\* Loop making the recursive call without the assignment of line 53
Loop_noassign ==
  /\ pc = "loop"
  /\ LET f == Top
     IN  IF f.i > Len(symbols)
         THEN /\ stack' = Pop
              /\ ret' = "False"
              /\ pc' = "return"
              /\ board' = board
         ELSE IF is_valid(board, f.row, f.col, symbols[f.i], symbols)
              THEN /\ board' = board
                   /\ pc' = "call"
                   /\ UNCHANGED <<stack, ret>>
              ELSE /\ stack' = SetTop([f EXCEPT !.i = f.i + 1])
                   /\ UNCHANGED <<board, pc, ret>>
  /\ UNCHANGED <<symbols, input, arg, valid, appVars>>

\* lines 50-52 and 62: one turn of the for loop
Loop ==
  /\ pc = "loop"
  /\ LET f == Top
     IN  IF f.i > Len(symbols)
         THEN /\ stack' = Pop
              /\ ret' = "False"
              /\ pc' = "return"
              /\ board' = board
         ELSE IF is_valid(board, f.row, f.col, symbols[f.i], symbols)
              THEN /\ board' = [board EXCEPT ![f.row + 1][f.col + 1] = symbols[f.i]]
                   /\ pc' = "call"
                   /\ UNCHANGED <<stack, ret>>
              ELSE /\ stack' = SetTop([f EXCEPT !.i = f.i + 1])
                   /\ UNCHANGED <<board, pc, ret>>
  /\ UNCHANGED <<symbols, input, arg, valid, appVars>>

\* Return without the undo of line 59
Return_noundo ==
  /\ pc = "return"
  /\ IF stack = << >>
     THEN /\ pc' = "done"
          /\ UNCHANGED <<board, stack>>
     ELSE LET f == Top
          IN  IF ret = "True"
              THEN /\ stack' = Pop
                   /\ pc' = "return"
                   /\ board' = board
              ELSE /\ board' = board
                   /\ stack' = SetTop([f EXCEPT !.i = f.i + 1])
                   /\ pc' = "loop"
  /\ UNCHANGED <<symbols, input, ret, arg, valid, appVars>>

\* Return whose undo empties the whole row of the cell
Return_clearrow ==
  /\ pc = "return"
  /\ IF stack = << >>
     THEN /\ pc' = "done"
          /\ UNCHANGED <<board, stack>>
     ELSE LET f == Top
          IN  IF ret = "True"
              THEN /\ stack' = Pop
                   /\ pc' = "return"
                   /\ board' = board
              ELSE /\ board' = [board EXCEPT ![f.row + 1] = [c \in 1..Len(board) |-> ""]]
                   /\ stack' = SetTop([f EXCEPT !.i = f.i + 1])
                   /\ pc' = "loop"
  /\ UNCHANGED <<symbols, input, ret, arg, valid, appVars>>

\* Return after which the for loop tries the same symbol again
Return_retry ==
  /\ pc = "return"
  /\ IF stack = << >>
     THEN /\ pc' = "done"
          /\ UNCHANGED <<board, stack>>
     ELSE IF ret = "True"
          THEN /\ stack' = Pop
               /\ pc' = "return"
               /\ board' = board
          ELSE /\ board' = [board EXCEPT ![Top.row + 1][Top.col + 1] = ""]
               /\ stack' = stack
               /\ pc' = "loop"
  /\ UNCHANGED <<symbols, input, ret, arg, valid, appVars>>

\* lines 55-59: the recursive call has returned to its caller
Return ==
  /\ pc = "return"
  /\ IF stack = << >>
     THEN /\ pc' = "done"
          /\ UNCHANGED <<board, stack>>
     ELSE LET f == Top
          IN  IF ret = "True"
              THEN /\ stack' = Pop
                   /\ pc' = "return"
                   /\ board' = board
              ELSE /\ board' = [board EXCEPT ![f.row + 1][f.col + 1] = ""]
                   /\ stack' = SetTop([f EXCEPT !.i = f.i + 1])
                   /\ pc' = "loop"
  /\ UNCHANGED <<symbols, input, ret, arg, valid, appVars>>

----------------------------------------------------------------------------
(* The boards the calls are made on *)

Cells(n) == (0..(n - 1)) \X (0..(n - 1))

Range(s) == {s[i] : i \in DOMAIN s}

\* a complete conflict-free grid for box size k, written down directly:
\* each row is the alphabet rotated
PatternGrid(k) ==
  LET n == k * k
  IN  [r \in 1..n |-> [c \in 1..n |->
        Alphabet(n)[((((r - 1) % k) * k + ((r - 1) \div k) + (c - 1)) % n) + 1]]]

RECURSIVE ApplyEdits(_, _, _)
\* b with the cells named by edits[1..m] overwritten, in that order
ApplyEdits(b, edits, m) ==
  IF m = 0 THEN b
  ELSE LET e == edits[m]
       IN  [ApplyEdits(b, edits, m - 1) EXCEPT ![e[1][1] + 1][e[1][2] + 1] = e[2]]

\* dense 4x4 boards: the pattern grid with up to MaxEdits cells overwritten
\* by a symbol or emptied
DenseBoards ==
  LET n == 4
      vals == Range(Alphabet(n)) \cup {""}
  IN  {ApplyEdits(PatternGrid(2), ed, MaxEdits) :
         ed \in [1..MaxEdits -> Cells(n) \X vals]}

\* the cells the sparse boards are pre-filled in
Window == {<<0, 0>>, <<0, 1>>, <<1, 2>>, <<2, 0>>, <<3, 3>>}

\* sparse 4x4 boards: up to MaxFilled cells of Window hold a symbol
SparseBoards ==
  LET n == 4
      vals == Range(Alphabet(n)) \cup {""}
      fills == {f \in [Window -> vals] :
                  Cardinality({w \in Window : f[w] # ""}) <= MaxFilled}
  IN  {[r \in 1..n |-> [c \in 1..n |->
          IF <<r - 1, c - 1>> \in Window THEN f[<<r - 1, c - 1>>] ELSE ""]] :
         f \in fills}

\* the empty board of every box size up to MaxBox
EmptyBoards == {EmptyBoard(k * k) : k \in 2..MaxBox}

SolverInputs == DenseBoards \cup SparseBoards \cup EmptyBoards

\* boards of the larger box sizes with one filled cell on the diagonal
DiagonalBoards ==
  UNION {{[EmptyBoard(k * k) EXCEPT ![d][d] = Alphabet(k * k)[1]] :
            d \in 1..(k * k)} : k \in 3..MaxBox}

----------------------------------------------------------------------------
(* What the claims speak of *)

\* the box size k of an n x n board, n = k * k
BoxOf(n) == CHOOSE k \in 1..n : k * k = n

\* cells <<r, c>> and <<r2, c2>> lie in the same k x k block
SameBlock(k, r, c, r2, c2) == r \div k = r2 \div k /\ c \div k = c2 \div k

\* cells <<r, c>> and <<r2, c2>> share a row, a column or a block
Sees(k, r, c, r2, c2) == r = r2 \/ c = c2 \/ SameBlock(k, r, c, r2, c2)

\* num occurs in row `row`, in column `col` or in the block of <<row, col>>
Occurs(b, row, col, num) ==
  \E x \in Cells(Len(b)) :
    /\ b[x[1] + 1][x[2] + 1] = num
    /\ Sees(BoxOf(Len(b)), row, col, x[1], x[2])

\* no cell is empty
Complete(b) == \A x \in Cells(Len(b)) : b[x[1] + 1][x[2] + 1] # ""

\* no symbol occurs twice in a row, a column or a block
NoDuplicate(b) ==
  LET n == Len(b)
      k == BoxOf(n)
      Differ(v, w) == v = "" \/ v # w
  IN  /\ \A r \in 1..n : \A c \in 1..n : \A c2 \in (c + 1)..n :
           Differ(b[r][c], b[r][c2])
      /\ \A c \in 1..n : \A r \in 1..n : \A r2 \in (r + 1)..n :
           Differ(b[r][c], b[r2][c])
      /\ \A br \in 0..(k - 1) : \A bc \in 0..(k - 1) :
           \A i \in 0..(n - 1) : \A j \in (i + 1)..(n - 1) :
             Differ(b[br * k + (i \div k) + 1][bc * k + (i % k) + 1],
                    b[br * k + (j \div k) + 1][bc * k + (j % k) + 1])

\* the units of an n x n board: its rows, its columns and its blocks
Units(n) ==
  LET k == BoxOf(n)
  IN  {{x \in Cells(n) : x[1] = i} : i \in 0..(n - 1)}
      \cup {{x \in Cells(n) : x[2] = i} : i \in 0..(n - 1)}
      \cup {{x \in Cells(n) : x[1] \div k = i \div k /\ x[2] \div k = i % k} :
              i \in 0..(n - 1)}

\* every row, column and block holds every symbol of syms exactly once
AllPermutations(b, syms) ==
  /\ Len(syms) = Len(b)
  /\ \A u \in Units(Len(b)) :
       /\ {b[x[1] + 1][x[2] + 1] : x \in u} = Range(syms)
       /\ Cardinality(u) = Len(syms)

\* b2 agrees with b on every filled cell of b
Extends(b2, b) ==
  \A x \in Cells(Len(b)) :
    b[x[1] + 1][x[2] + 1] # "" => b2[x[1] + 1][x[2] + 1] = b[x[1] + 1][x[2] + 1]

\* the orderings of the four symbols of the 4 x 4 alphabet
Rows4 == {r \in [1..4 -> Range(Alphabet(4))] : \A i, j \in 1..4 : i # j => r[i] # r[j]}

\* two rows that can stand one above the other inside a band of blocks
Bands4 ==
  {p \in Rows4 \X Rows4 :
     /\ {p[1][1], p[1][2]} \cap {p[2][1], p[2][2]} = {}
     /\ {p[1][3], p[1][4]} \cap {p[2][3], p[2][4]} = {}}

\* every complete conflict-free 4 x 4 grid
ValidGrids4 ==
  {g \in {<<p[1][1], p[1][2], p[2][1], p[2][2]>> : p \in Bands4 \X Bands4} :
     \A c \in 1..4 : Cardinality({g[r][c] : r \in 1..4}) = 4}

\* some complete conflict-free grid agrees with b on its filled cells
HasCompletion4(b) == \E g \in ValidGrids4 : Extends(g, b)

Done == pc = "done"

\* no window exists: the solver and the checker are called on their own
NoApp ==
  /\ win = << >>
  /\ history = << >>
  /\ challenge = << >>

\* the cells of a grid of side n that are empty
EmptyCells(n, g) == {x \in Cells(n) : g[x[1] + 1][x[2] + 1] = ""}

\* the cells at which two grids of side n differ
Differing(n, g, h) == {x \in Cells(n) : g[x[1] + 1][x[2] + 1] # h[x[1] + 1][x[2] + 1]}

----------------------------------------------------------------------------
(* Specification of the solver: one top-level call of solve_sudoku *)

InitSolve ==
  /\ board \in SolverInputs
  /\ symbols = Alphabet(Len(board))
  /\ input = board
  /\ stack = << >>
  /\ pc = "call"
  /\ ret = "none"
  /\ arg = << >>
  /\ valid = "none"
  /\ NoApp

NextSolve == Enter \/ Scan \/ Loop \/ Return

SpecSolve == InitSolve /\ [][NextSolve]_vars

\* the interpreter goes on executing a call that has a next statement
SpecSolveFair == SpecSolve /\ WF_vars(NextSolve)

----------------------------------------------------------------------------
(* Specification of the constraint checker: calls of is_valid *)

InitValid ==
  /\ board \in SolverInputs \cup DiagonalBoards
  /\ symbols = Alphabet(Len(board))
  /\ input = board
  /\ stack = << >>
  /\ pc = "check"
  /\ ret = "none"
  /\ arg = << >>
  /\ valid = "none"
  /\ NoApp

\* IsValidCall with the block's first row taken as (row % box_size) * box_size
IsValidCall_rowmod ==
  LET is_valid_rowmod(b, row, col, num) ==
        LET n == Len(b)
            box_size == isqrt(n)
            box_row == (row % box_size) * box_size
            box_col == (col \div box_size) * box_size
        IN  IF \E i \in 0..(n - 1) : b[row + 1][i + 1] = num THEN FALSE
            ELSE IF \E i \in 0..(n - 1) : b[i + 1][col + 1] = num THEN FALSE
            ELSE IF \E i \in 0..(box_size - 1) : \E j \in 0..(box_size - 1) :
                      b[box_row + i + 1][box_col + j + 1] = num THEN FALSE
            ELSE TRUE
  IN  /\ pc = "check"
      /\ arg = << >>
      /\ \E row \in 0..(Len(board) - 1), col \in 0..(Len(board) - 1),
            num \in Range(symbols) :
           /\ arg' = <<row, col, num>>
           /\ valid' = IF is_valid_rowmod(board, row, col, num) THEN "True" ELSE "False"
      /\ UNCHANGED <<board, symbols, input, stack, pc, ret, appVars>>

IsValidCall ==
  /\ pc = "check"
  /\ arg = << >>
  /\ \E row \in 0..(Len(board) - 1), col \in 0..(Len(board) - 1),
        num \in Range(symbols) :
       /\ arg' = <<row, col, num>>
       /\ valid' = IF is_valid(board, row, col, num, symbols) THEN "True" ELSE "False"
  /\ UNCHANGED <<board, symbols, input, stack, pc, ret, appVars>>

NextValid == IsValidCall

SpecValid == InitValid /\ [][NextValid]_vars

----------------------------------------------------------------------------
(* The windows, src/main.py 82-321 and 748-1071 *)

\* bound: the block sizes entered in the main window's size dialog
MainSizes == {2}

\* bound: the block sizes chosen in the challenge dialog
ChallengeSizes == {2, 3}

\* bound: the length of the history list at which solving stops
MaxHistory == 1

\* bound: the number of calls of solve_sudoku by solve() at which solving
\* stops
MaxRuns == 2

\* bound: how many symbols of the alphabet the user types
MaxTyped == 1

\* bound: a symbol text with a repeated symbol is entered for boards of at
\* most this many cells a side
MaxRepeat == 4

\* bound: how many starting offsets random.shuffle's outcomes are drawn from
MaxOffset == 1

\* bound: in how many steps random.uniform's range is sampled
RateSteps == 2

\* the colours of the style sheets: clue or user input of the main window,
\* solved cell, user input of the challenge window; "" is no colour
Red == "#FF0000"

Green == "#008000"

Orange == "#FFA500"

\* "123456789", the text both windows take their default symbols from
DigitString == SubSeq(SymbolPool, 1, 9)

\* s[:n]
Prefix(s, n) == SubSeq(s, 1, IF n < Len(s) THEN n ELSE Len(s))

\* the grid of QLineEdit widgets new_sudoku builds: no text, no colour
NewEntries(n) == [r \in 1..n |-> [c \in 1..n |-> [text |-> "", color |-> ""]]]

\* SudokuSolverApp.__init__ before init_ui: << >> is None; alive says that
\* the widgets of entries exist; shared is the index of the history record
\* whose result is the very list self.board is bound to (0: none); crashed
\* says that a handler raised an exception; runs counts the calls of
\* solve_sudoku that solve() has made
SudokuSolverApp ==
  [box_size |-> 3, n |-> 9, board |-> << >>, entries |-> << >>,
   symbols |-> << >>, last_input |-> << >>, alive |-> FALSE, shared |-> 0,
   crashed |-> FALSE, runs |-> 0]

\* new_sudoku: the window after the two dialogs were answered
new_sudoku(w, size_ok, size, sym_ok, text) ==
  LET cleared == [w EXCEPT !.alive = FALSE]
      sized == [cleared EXCEPT !.box_size = size, !.n = size * size]
  IN  IF ~size_ok THEN cleared
      ELSE IF ~sym_ok \/ Len(text) # sized.n THEN sized
      ELSE [sized EXCEPT !.symbols = text,
                         !.board = EmptyBoard(sized.n),
                         !.entries = NewEntries(sized.n),
                         !.last_input = << >>,
                         !.alive = TRUE,
                         !.shared = 0]

\* the texts entered in the symbols dialog for an n x n board: the default
\* text, n distinct symbols, a text one symbol short, and a text of n
\* symbols that repeats its first symbol
SymbolTexts(n) ==
  {Prefix(DigitString, n), Alphabet(n), Prefix(DigitString, n - 1)}
    \cup (IF n <= MaxRepeat THEN {<<"1">> \o Prefix(DigitString, n - 1)} ELSE {})

\* the cells the user types in
TypeCells(n) == IF n = 4 THEN {<<0, 0>>, <<0, 1>>, <<2, 0>>} ELSE {<<0, 0>>}

\* the texts the user leaves in a cell: nothing, one of the first symbols,
\* or a character that is no symbol
TypedTexts(syms) == {""} \cup Range(Prefix(syms, MaxTyped)) \cup {"?"}

\* SudokuSolverApp.validate_input on the text of entry (i, j) having
\* changed to text
validate_input(w, i, j, text) ==
  LET e == w.entries[i + 1][j + 1]
  IN  IF text # "" /\ text \notin Range(w.symbols)
      THEN [w EXCEPT !.entries[i + 1][j + 1] = [e EXCEPT !.text = ""]]
      ELSE IF text # ""
      THEN [w EXCEPT !.entries[i + 1][j + 1] = [text |-> text, color |-> Red]]
      ELSE [w EXCEPT !.entries[i + 1][j + 1] = [e EXCEPT !.text = ""]]

\* get_original_input: the red cells whose text is a symbol
get_original_input(w) ==
  [r \in 1..w.n |-> [c \in 1..w.n |->
     LET e == w.entries[r][c]
     IN  IF e.color = Red
         THEN (IF e.text \in Range(w.symbols) THEN e.text ELSE "")
         ELSE ""]]

\* update_entries_from_board with an input state: the entries show the
\* board, green where the value is not the input's, red where it is
update_entries_from_board(w, b, input_state) ==
  [r \in 1..w.n |-> [c \in 1..w.n |->
     LET value == b[r][c]
     IN  [text |-> value,
          color |-> IF value # "" /\ (input_state[r][c] = "" \/ input_state[r][c] # value)
                    THEN Green
                    ELSE IF value # "" THEN Red ELSE ""]]]

\* the position of a handler of a window, no solver call being under way
AppIdle ==
  /\ stack = << >>
  /\ pc = "app"
  /\ arg = << >>
  /\ valid = "none"

\* the "new sudoku" button
NewSudokuButton ==
  /\ ~win.crashed
  /\ \E size_ok \in BOOLEAN, size \in MainSizes, sym_ok \in BOOLEAN :
       \E text \in SymbolTexts(size * size) :
         win' = new_sudoku(win, size_ok, size, sym_ok, text)
  /\ UNCHANGED <<solverVars, history, challenge>>

\* the user changes the text of an entry of the main window
EditEntry ==
  /\ ~win.crashed
  /\ win.alive
  /\ \E x \in TypeCells(win.n), text \in TypedTexts(win.symbols) :
       /\ text # win.entries[x[1] + 1][x[2] + 1].text
       /\ win' = validate_input(win, x[1], x[2], text)
  /\ UNCHANGED <<solverVars, history, challenge>>

\* SolveButton appending a record also when the solver returns False
SolveButton_appendall ==
  /\ ~win.crashed
  /\ Len(history) < MaxHistory
  /\ win.runs < MaxRuns
  /\ IF ~win.alive
     THEN /\ win' = [win EXCEPT !.crashed = TRUE]
          /\ UNCHANGED <<solverVars, history, challenge>>
     ELSE LET original_input == get_original_input(win)
              filled_cells == Cardinality({x \in Cells(win.n) :
                                original_input[x[1] + 1][x[2] + 1] # ""})
              r == solve_sudoku(original_input, win.symbols)
          IN  IF filled_cells = 0
              THEN UNCHANGED vars
              ELSE IF win.last_input # << >> /\ win.last_input = original_input
              THEN UNCHANGED vars
              ELSE /\ input' = original_input
                   /\ symbols' = win.symbols
                   /\ board' = r.board
                   /\ ret' = IF r.ok THEN "True" ELSE "False"
                   /\ IF r.ok
                      THEN /\ win' = [win EXCEPT
                                !.last_input = original_input,
                                !.runs = win.runs + 1,
                                !.board = r.board,
                                !.entries = update_entries_from_board(win, r.board, original_input),
                                !.shared = Len(history) + 1]
                           /\ history' = Append(history,
                                [input |-> original_input, result |-> r.board,
                                 symbols |-> win.symbols, size |-> win.box_size])
                      ELSE /\ win' = [win EXCEPT
                                !.last_input = original_input,
                                !.runs = win.runs + 1,
                                !.board = original_input,
                                !.shared = 0]
                           /\ history' = Append(history,
                                [input |-> original_input, result |-> original_input,
                                 symbols |-> win.symbols, size |-> win.box_size])
                   /\ UNCHANGED <<stack, pc, arg, valid, challenge>>

\* SolveButton without the comparison with last_input
SolveButton_nogate ==
  /\ ~win.crashed
  /\ Len(history) < MaxHistory
  /\ win.runs < MaxRuns
  /\ IF ~win.alive
     THEN /\ win' = [win EXCEPT !.crashed = TRUE]
          /\ UNCHANGED <<solverVars, history, challenge>>
     ELSE LET original_input == get_original_input(win)
              filled_cells == Cardinality({x \in Cells(win.n) :
                                original_input[x[1] + 1][x[2] + 1] # ""})
              r == solve_sudoku(original_input, win.symbols)
          IN  IF filled_cells = 0
              THEN UNCHANGED vars
              ELSE /\ input' = original_input
                   /\ symbols' = win.symbols
                   /\ board' = r.board
                   /\ ret' = IF r.ok THEN "True" ELSE "False"
                   /\ IF r.ok
                      THEN /\ win' = [win EXCEPT
                                !.last_input = original_input,
                                !.runs = win.runs + 1,
                                !.board = r.board,
                                !.entries = update_entries_from_board(win, r.board, original_input),
                                !.shared = Len(history) + 1]
                           /\ history' = Append(history,
                                [input |-> original_input, result |-> r.board,
                                 symbols |-> win.symbols, size |-> win.box_size])
                      ELSE /\ win' = [win EXCEPT
                                !.last_input = original_input,
                                !.runs = win.runs + 1,
                                !.board = original_input,
                                !.shared = 0]
                           /\ history' = history
                   /\ UNCHANGED <<stack, pc, arg, valid, challenge>>

\* the "solve" button, SudokuSolverApp.solve; board, symbols, input and ret
\* record the call of solve_sudoku it makes
SolveButton ==
  /\ ~win.crashed
  /\ Len(history) < MaxHistory
  /\ win.runs < MaxRuns
  /\ IF ~win.alive
     THEN /\ win' = [win EXCEPT !.crashed = TRUE]
          /\ UNCHANGED <<solverVars, history, challenge>>
     ELSE LET original_input == get_original_input(win)
              filled_cells == Cardinality({x \in Cells(win.n) :
                                original_input[x[1] + 1][x[2] + 1] # ""})
              r == solve_sudoku(original_input, win.symbols)
          IN  IF filled_cells = 0
              THEN UNCHANGED vars
              ELSE IF win.last_input # << >> /\ win.last_input = original_input
              THEN UNCHANGED vars
              ELSE /\ input' = original_input
                   /\ symbols' = win.symbols
                   /\ board' = r.board
                   /\ ret' = IF r.ok THEN "True" ELSE "False"
                   /\ IF r.ok
                      THEN /\ win' = [win EXCEPT
                                !.last_input = original_input,
                                !.runs = win.runs + 1,
                                !.board = r.board,
                                !.entries = update_entries_from_board(win, r.board, original_input),
                                !.shared = Len(history) + 1]
                           /\ history' = Append(history,
                                [input |-> original_input, result |-> r.board,
                                 symbols |-> win.symbols, size |-> win.box_size])
                      ELSE /\ win' = [win EXCEPT
                                !.last_input = original_input,
                                !.runs = win.runs + 1,
                                !.board = original_input,
                                !.shared = 0]
                           /\ history' = history
                   /\ UNCHANGED <<stack, pc, arg, valid, challenge>>

\* the "clear" button, SudokuSolverApp.clear: the cells of self.board are
\* emptied in place, and with them the result of the record that shares them
ClearButton ==
  /\ ~win.crashed
  /\ IF ~win.alive
     THEN /\ win' = [win EXCEPT !.crashed = TRUE]
          /\ history' = history
     ELSE /\ win' = [win EXCEPT !.board = EmptyBoard(win.n),
                                !.entries = NewEntries(win.n),
                                !.last_input = EmptyBoard(win.n)]
          /\ history' = IF win.shared > 0
                        THEN [history EXCEPT ![win.shared].result = EmptyBoard(win.n)]
                        ELSE history
  /\ UNCHANGED <<solverVars, challenge>>

\* the main window after SudokuSolverApp(): init_ui ends with new_sudoku
InitWindow ==
  /\ \E size_ok \in BOOLEAN, size \in MainSizes, sym_ok \in BOOLEAN :
       \E text \in SymbolTexts(size * size) :
         win = new_sudoku(SudokuSolverApp, size_ok, size, sym_ok, text)
  /\ history = << >>
  /\ challenge = << >>
  /\ board = << >>
  /\ symbols = << >>
  /\ input = << >>
  /\ ret = "none"
  /\ AppIdle

NextWindow == NewSudokuButton \/ EditEntry \/ SolveButton \/ ClearButton

SpecWindow == InitWindow /\ [][NextWindow]_vars

----------------------------------------------------------------------------
(* The challenge window, src/main.py 82-253 *)

\* ChallengeMode.difficulties: the range of the rate of emptied cells, in
\* thousandths; "easy", "medium" and "hard" stand for the three names
difficulties ==
  [easy |-> <<400, 500>>, medium |-> <<500, 600>>, hard |-> <<600, 700>>]

\* the values random.uniform(lo, hi) is drawn from, in thousandths: both
\* ends of the range and the points between them
Rates(difficulty) ==
  LET lo == difficulties[difficulty][1]
      hi == difficulties[difficulty][2]
  IN  {lo + (i * (hi - lo)) \div RateSteps : i \in 0..RateSteps}

\* one outcome of random.shuffle on the row-major list of the cells: from
\* the cell numbered o on, every s-th cell (s and n * n have no common
\* divisor)
Shuffle(n, o, s) ==
  [i \in 1..(n * n) |->
     LET x == (o + (i - 1) * s) % (n * n) IN <<x \div n, x % n>>]

\* the outcomes of random.shuffle that are drawn
Shuffles(n) == {Shuffle(n, o, s) : o \in 0..MaxOffset, s \in {1, n + 1}}

\* ChallengeMode.__init__ and init_ui, before generate_puzzle: << >> is None;
\* removal_rate and puzzle are the locals of the last generate_puzzle call,
\* message is the message box check_solution has shown ("" after any other
\* handler of the window)
ChallengeMode(difficulty, size) ==
  [difficulty |-> difficulty,
   box_size |-> size,
   n |-> size * size,
   symbols |-> Prefix(DigitString, size * size),
   solution |-> << >>,
   removal_rate |-> 0,
   puzzle |-> << >>,
   message |-> "",
   entries |-> [r \in 1..(size * size) |-> [c \in 1..(size * size) |->
                  [text |-> "", color |-> "", readOnly |-> FALSE]]]]

\* line 221 with the product rounded up instead of down
cells_to_remove_ceil(n, removal_rate) == (n * n * removal_rate + 999) \div 1000

\* line 221, int(self.n * self.n * removal_rate), the rate in thousandths
cells_to_remove(n, removal_rate) == (n * n * removal_rate) \div 1000

\* generate_puzzle with the solved board on a copy of the puzzle instead
\* of the board solve_sudoku left
generate_puzzle_frompuzzle(ch, solved, removal_rate, shuffled) ==
  LET n == ch.n
      positions == {shuffled[i] : i \in 1..cells_to_remove(n, removal_rate)}
      puzzle == [r \in 1..n |-> [c \in 1..n |->
                   IF <<r - 1, c - 1>> \in positions THEN "" ELSE solved[r][c]]]
  IN  [ch EXCEPT
         !.solution = puzzle,
         !.removal_rate = removal_rate,
         !.puzzle = puzzle,
         !.message = "",
         !.entries = [r \in 1..n |-> [c \in 1..n |->
            IF puzzle[r][c] # ""
            THEN [text |-> puzzle[r][c], color |-> Red, readOnly |-> TRUE]
            ELSE [text |-> "", color |-> ch.entries[r][c].color,
                  readOnly |-> FALSE]]]]

\* generate_puzzle emptying one shuffled cell more than cells_to_remove
generate_puzzle_onemore(ch, solved, removal_rate, shuffled) ==
  LET n == ch.n
      positions == {shuffled[i] : i \in 1..(cells_to_remove(n, removal_rate) + 1)}
      puzzle == [r \in 1..n |-> [c \in 1..n |->
                   IF <<r - 1, c - 1>> \in positions THEN "" ELSE solved[r][c]]]
  IN  [ch EXCEPT
         !.solution = solved,
         !.removal_rate = removal_rate,
         !.puzzle = puzzle,
         !.message = "",
         !.entries = [r \in 1..n |-> [c \in 1..n |->
            IF puzzle[r][c] # ""
            THEN [text |-> puzzle[r][c], color |-> Red, readOnly |-> TRUE]
            ELSE [text |-> "", color |-> ch.entries[r][c].color,
                  readOnly |-> FALSE]]]]

\* generate_puzzle, lines 217-247, solved being the board that the call of
\* solve_sudoku on the empty board left: the solution is a copy of it, the
\* puzzle a copy with the first cells_to_remove shuffled cells emptied; a
\* clue is shown red and read-only, an emptied entry keeps its colour
generate_puzzle(ch, solved, removal_rate, shuffled) ==
  LET n == ch.n
      positions == {shuffled[i] : i \in 1..cells_to_remove(n, removal_rate)}
      puzzle == [r \in 1..n |-> [c \in 1..n |->
                   IF <<r - 1, c - 1>> \in positions THEN "" ELSE solved[r][c]]]
  IN  [ch EXCEPT
         !.solution = solved,
         !.removal_rate = removal_rate,
         !.puzzle = puzzle,
         !.message = "",
         !.entries = [r \in 1..n |-> [c \in 1..n |->
            IF puzzle[r][c] # ""
            THEN [text |-> puzzle[r][c], color |-> Red, readOnly |-> TRUE]
            ELSE [text |-> "", color |-> ch.entries[r][c].color,
                  readOnly |-> FALSE]]]]

\* a challenge window is open
ChallengeOpen == DOMAIN challenge # {}

\* the calls of solve_sudoku that generate_puzzle makes, line 216: on the
\* empty board, with the symbols of a window; each is computed once
EmptyRuns ==
  [a \in {<<k * k, Prefix(DigitString, k * k)>> : k \in ChallengeSizes} |->
     solve_sudoku(EmptyBoard(a[1]), a[2])]

\* generate_puzzle on window ch, lines 212-253: the call of solve_sudoku on
\* the empty board, recorded in board, symbols, input and ret, and then the
\* random draws
Generate(ch) ==
  LET r == EmptyRuns[<<ch.n, ch.symbols>>]
  IN  /\ input' = EmptyBoard(ch.n)
      /\ symbols' = ch.symbols
      /\ board' = r.board
      /\ ret' = IF r.ok THEN "True" ELSE "False"
      /\ \E removal_rate \in Rates(ch.difficulty), shuffled \in Shuffles(ch.n) :
           challenge' = generate_puzzle(ch, r.board, removal_rate, shuffled)
      /\ UNCHANGED <<stack, pc, arg, valid, win, history>>

\* the "challenge mode" button, start_challenge: the dialog is accepted
\* with a difficulty and a size, and the window is constructed
StartChallenge ==
  /\ ~win.crashed
  /\ \E difficulty \in DOMAIN difficulties, size \in ChallengeSizes :
       Generate(ChallengeMode(difficulty, size))

\* the "new puzzle" button of the challenge window
NewPuzzleButton ==
  /\ ~win.crashed
  /\ ChallengeOpen
  /\ Generate(challenge)

\* ChallengeMode.validate_input, lines 255-266, on the text of entry (i, j)
\* having changed to text: a text that is no symbol is removed, a symbol is
\* shown orange
challenge_validate_input(ch, i, j, text) ==
  LET e == ch.entries[i + 1][j + 1]
  IN  IF text # "" /\ text \notin Range(ch.symbols)
      THEN [ch EXCEPT !.entries[i + 1][j + 1] = [e EXCEPT !.text = ""]]
      ELSE IF text # ""
      THEN [ch EXCEPT !.entries[i + 1][j + 1] = [e EXCEPT !.text = text, !.color = Orange]]
      ELSE [ch EXCEPT !.entries[i + 1][j + 1] = [e EXCEPT !.text = ""]]

\* get_current_state, lines 268-274: the texts of the entries
get_current_state(ch) ==
  [r \in 1..ch.n |-> [c \in 1..ch.n |-> ch.entries[r][c].text]]

\* show_solution, lines 323-336, the question answered with yes: every
\* entry that is not read-only shows the solution's cell in green
show_solution(ch) ==
  [ch EXCEPT
     !.message = "",
     !.entries = [r \in 1..ch.n |-> [c \in 1..ch.n |->
        LET e == ch.entries[r][c]
        IN  IF ~e.readOnly
            THEN [e EXCEPT !.text = ch.solution[r][c], !.color = Green]
            ELSE e]]]

\* lines 288-298 of check_solution: the texts of the red entries and the
\* texts of the orange entries
puzzle_state(ch) ==
  [r \in 1..ch.n |-> [c \in 1..ch.n |->
     IF ch.entries[r][c].color = Red THEN ch.entries[r][c].text ELSE ""]]

user_answer_state(ch) ==
  [r \in 1..ch.n |-> [c \in 1..ch.n |->
     IF ch.entries[r][c].color = Orange THEN ch.entries[r][c].text ELSE ""]]

\* lines 302-311: the record of a solved challenge; the time stamp and the
\* elapsed time, which come from the clock, are left out
challenge_record(ch) ==
  [puzzle |-> puzzle_state(ch),
   input |-> user_answer_state(ch),
   result |-> ch.solution,
   symbols |-> ch.symbols,
   size |-> ch.box_size,
   mode |-> "challenge",
   difficulty |-> ch.difficulty]

\* the "show answer" button of the challenge window
ShowSolutionButton ==
  /\ ~win.crashed
  /\ ChallengeOpen
  /\ challenge' = show_solution(challenge)
  /\ UNCHANGED <<solverVars, win, history>>

\* CheckButton reporting success when the filled cells agree
CheckButton_filled ==
  /\ ~win.crashed
  /\ ChallengeOpen
  /\ Len(history) < MaxHistory
  /\ LET current == get_current_state(challenge)
     IN  IF \A x \in Cells(challenge.n) :
               \/ current[x[1] + 1][x[2] + 1] = ""
               \/ current[x[1] + 1][x[2] + 1] = challenge.solution[x[1] + 1][x[2] + 1]
         THEN /\ history' = Append(history, challenge_record(challenge))
              /\ challenge' = [challenge EXCEPT !.message = "correct"]
         ELSE /\ history' = history
              /\ challenge' = [challenge EXCEPT !.message = "incorrect"]
  /\ UNCHANGED <<solverVars, win>>

\* CheckButton reporting success on every complete conflict-free grid
CheckButton_anyvalid ==
  /\ ~win.crashed
  /\ ChallengeOpen
  /\ Len(history) < MaxHistory
  /\ LET current == get_current_state(challenge)
     IN  IF Complete(current) /\ NoDuplicate(current)
         THEN /\ history' = Append(history, challenge_record(challenge))
              /\ challenge' = [challenge EXCEPT !.message = "correct"]
         ELSE /\ history' = history
              /\ challenge' = [challenge EXCEPT !.message = "incorrect"]
  /\ UNCHANGED <<solverVars, win>>

\* the "check answer" button, check_solution, lines 277-321: when every
\* cell of the grid is the solution's the record is appended to the main
\* window's history and success is reported, otherwise failure is
CheckButton ==
  /\ ~win.crashed
  /\ ChallengeOpen
  /\ Len(history) < MaxHistory
  /\ LET current == get_current_state(challenge)
     IN  IF \A x \in Cells(challenge.n) :
               current[x[1] + 1][x[2] + 1] = challenge.solution[x[1] + 1][x[2] + 1]
         THEN /\ history' = Append(history, challenge_record(challenge))
              /\ challenge' = [challenge EXCEPT !.message = "correct"]
         ELSE /\ history' = history
              /\ challenge' = [challenge EXCEPT !.message = "incorrect"]
  /\ UNCHANGED <<solverVars, win>>

\* the main window after its start, both dialogs answered with what they
\* offer, and no challenge window
InitChallenge ==
  /\ win = new_sudoku(SudokuSolverApp, TRUE, SudokuSolverApp.box_size, TRUE,
                      Prefix(DigitString, SudokuSolverApp.n))
  /\ history = << >>
  /\ challenge = << >>
  /\ board = << >>
  /\ symbols = << >>
  /\ input = << >>
  /\ ret = "none"
  /\ AppIdle

NextChallenge == StartChallenge \/ NewPuzzleButton

SpecChallenge == InitChallenge /\ [][NextChallenge]_vars

----------------------------------------------------------------------------
(* Specification of the solver on the puzzles of generate_puzzle *)

\* bound: the block sizes for which every set of cleared cells is drawn
FullSizes == {2}

\* lines 216-217: the solution a challenge window of block size k stores
Solution(k) == EmptyRuns[<<k * k, Prefix(DigitString, k * k)>>].board

\* lines 229-231: the puzzle, a copy of the solution with the cells of
\* positions emptied
Puzzle(k, positions) ==
  [r \in 1..(k * k) |-> [c \in 1..(k * k) |->
     IF <<r - 1, c - 1>> \in positions THEN "" ELSE Solution(k)[r][c]]]

\* the sets of cells generate_puzzle empties: for the sizes of FullSizes
\* every set of cells, for the other sizes the first cells_to_remove cells
\* of the shuffles, for the rates of the three tiers
ClearedSets(k) ==
  IF k \in FullSizes THEN SUBSET Cells(k * k)
  ELSE {{sh[i] : i \in 1..cells_to_remove(k * k, rate)} :
          sh \in Shuffles(k * k),
          rate \in UNION {Rates(d) : d \in DOMAIN difficulties}}

InitPuzzle ==
  /\ \E k \in ChallengeSizes : \E positions \in ClearedSets(k) :
       board = Puzzle(k, positions)
  /\ symbols = Prefix(DigitString, Len(board))
  /\ input = board
  /\ stack = << >>
  /\ pc = "puzzle"
  /\ ret = "none"
  /\ arg = << >>
  /\ valid = "none"
  /\ NoApp

\* SolvePuzzle with the last symbol of the alphabet left out
SolvePuzzle_short ==
  /\ pc = "puzzle"
  /\ LET r == solve_sudoku(board, Prefix(symbols, Len(symbols) - 1))
     IN  /\ board' = r.board
         /\ ret' = IF r.ok THEN "True" ELSE "False"
  /\ pc' = "done"
  /\ UNCHANGED <<symbols, input, stack, arg, valid, appVars>>

\* SolvePuzzle with the symbols tried in the reverse order
SolvePuzzle_reversed ==
  /\ pc = "puzzle"
  /\ LET r == solve_sudoku(board, [i \in 1..Len(symbols) |-> symbols[Len(symbols) + 1 - i]])
     IN  /\ board' = r.board
         /\ ret' = IF r.ok THEN "True" ELSE "False"
  /\ pc' = "done"
  /\ UNCHANGED <<symbols, input, stack, arg, valid, appVars>>

\* one call of solve_sudoku on the puzzle, from its entry to its return
SolvePuzzle ==
  /\ pc = "puzzle"
  /\ LET r == solve_sudoku(board, symbols)
     IN  /\ board' = r.board
         /\ ret' = IF r.ok THEN "True" ELSE "False"
  /\ pc' = "done"
  /\ UNCHANGED <<symbols, input, stack, arg, valid, appVars>>

NextPuzzle == SolvePuzzle

SpecPuzzle == InitPuzzle /\ [][NextPuzzle]_vars

----------------------------------------------------------------------------
(* Specification of the challenge window with a grid the user has typed *)

RECURSIVE TypeGrid(_, _, _)

\* the user types grid g into the entries that are not read-only, cell by
\* cell from the cell numbered x on, validate_input running on each change
TypeGrid(ch, g, x) ==
  IF x >= ch.n * ch.n THEN ch
  ELSE LET i == x \div ch.n
           j == x % ch.n
           e == ch.entries[i + 1][j + 1]
       IN  TypeGrid(IF ~e.readOnly /\ g[i + 1][j + 1] # e.text
                    THEN challenge_validate_input(ch, i, j, g[i + 1][j + 1])
                    ELSE ch,
                    g, x + 1)

\* the grids the user types into the window: the puzzle left as it is, the
\* solution, the solution with one emptied cell left empty or filled with
\* another symbol (every such cell for the sizes of FullSizes, the first
\* one for the others), and for the 4x4 window every other complete
\* conflict-free grid that keeps the clues
TypedGrids(ch) ==
  LET empties == EmptyCells(ch.n, ch.puzzle)
      first == {x \in empties : \A y \in empties :
                  x[1] * ch.n + x[2] <= y[1] * ch.n + y[2]}
      changed == IF ch.box_size \in FullSizes THEN empties ELSE first
  IN  {ch.puzzle, ch.solution}
        \cup {[ch.solution EXCEPT ![x[1] + 1][x[2] + 1] = v] :
                x \in changed, v \in Range(ch.symbols) \cup {""}}
        \cup (IF ch.n = 4 THEN {g \in ValidGrids4 : Extends(g, ch.puzzle)} ELSE {})

\* the challenge window after generate_puzzle and the user's typing, opened
\* from the main window after its start
InitCheck ==
  /\ win = new_sudoku(SudokuSolverApp, TRUE, SudokuSolverApp.box_size, TRUE,
                      Prefix(DigitString, SudokuSolverApp.n))
  /\ history = << >>
  /\ \E difficulty \in DOMAIN difficulties, size \in ChallengeSizes :
       \E removal_rate \in Rates(difficulty), shuffled \in Shuffles(size * size) :
         LET ch == generate_puzzle(ChallengeMode(difficulty, size), Solution(size),
                                   removal_rate, shuffled)
         IN  /\ \E g \in TypedGrids(ch) : challenge = TypeGrid(ch, g, 0)
             /\ input = EmptyBoard(ch.n)
             /\ symbols = ch.symbols
             /\ board = Solution(size)
             /\ ret = "True"
  /\ AppIdle

NextCheck == ShowSolutionButton \/ CheckButton

SpecCheck == InitCheck /\ [][NextCheck]_vars

----------------------------------------------------------------------------
(* Claims about is_valid and solve_sudoku *)

\* C1: is_valid(board, row, col, num) returns False exactly when num occurs
\* in row `row`, in column `col` or in the block of (row, col), and True
\* otherwise.
Thm_C1 ==
  /\ valid \in {"none", "True", "False"}
  /\ valid = "False" <=> (arg # << >> /\ Occurs(board, arg[1], arg[2], arg[3]))
  /\ valid = "True" <=> (arg # << >> /\ ~Occurs(board, arg[1], arg[2], arg[3]))

\* a call refused only because of the block: num is neither in the row nor
\* in the column
Wit_C1 ==
  /\ valid = "False"
  /\ \A i \in 1..Len(board) :
       board[arg[1] + 1][i] # arg[3] /\ board[i][arg[2] + 1] # arg[3]

\* C2: whenever solve_sudoku returns True the board has no empty cell and no
\* symbol twice in a row, a column or a block, whatever board it was given,
\* the grid the main window passes to it included.
Cex_C2 ==
  ((Done \/ pc = "app") /\ ret = "True") => (Complete(board) /\ NoDuplicate(board))

\* C3: when the top-level call returns False the board equals the board
\* passed in, cell for cell.
Thm_C3 ==
  (Done /\ ret = "False") => board = input

\* a failed search that did make a trial assignment: some symbol was valid
\* for the first empty cell of the input
Wit_C3 ==
  /\ Done
  /\ ret = "False"
  /\ FirstEmpty(input) # << >>
  /\ \E i \in 1..Len(symbols) :
       is_valid(input, FirstEmpty(input)[1], FirstEmpty(input)[2], symbols[i], symbols)

\* C4: on a 4 x 4 board whose filled cells do not conflict, solve_sudoku
\* returns True exactly when some complete conflict-free grid agrees with the
\* input on its filled cells.
Thm_C4 ==
  (Done /\ Len(input) = 4 /\ NoDuplicate(input))
    => (ret = IF HasCompletion4(input) THEN "True" ELSE "False")

\* a conflict-free input with filled cells that has no completion
Wit_C4 ==
  /\ Done
  /\ Len(input) = 4
  /\ NoDuplicate(input)
  /\ input # EmptyBoard(4)
  /\ ~HasCompletion4(input)
  /\ ret = "False"

\* C5: on the empty board solve_sudoku returns True and every row, column
\* and block of the grid it leaves is a permutation of the alphabet.
Thm_C5 ==
  (Done /\ input = EmptyBoard(Len(input)))
    => (ret = "True" /\ Complete(board) /\ AllPermutations(board, symbols))

\* the empty 9 x 9 board solved
Wit_C5 ==
  /\ Done
  /\ input = EmptyBoard(9)
  /\ ret = "True"

\* C6: no cell filled before the call ever holds another symbol, during the
\* search and after it, and on a complete conflict-free board the call
\* returns True and changes nothing.
Thm_C6 ==
  /\ Extends(board, input)
  /\ (Done /\ Complete(input) /\ NoDuplicate(input)) => (ret = "True" /\ board = input)

\* a successful call on a board that had both filled and empty cells
Wit_C6 ==
  /\ Done
  /\ ret = "True"
  /\ input # EmptyBoard(Len(input))
  /\ ~Complete(input)
  /\ Complete(board)

\* C7: from a board whose filled cells do not conflict, no state of the
\* search has a symbol twice in a row, a column or a block.
Thm_C7 ==
  NoDuplicate(input) => NoDuplicate(board)

\* a trial assignment made after an earlier one was undone, two calls deep
Wit_C7 ==
  /\ NoDuplicate(input)
  /\ pc = "call"
  /\ Len(stack) >= 2
  /\ ret = "False"

----------------------------------------------------------------------------
(* Claims about the windows *)

Cex_C10 ==
  ret # "none" =>
    /\ Len(symbols) = Len(input)
    /\ \A i, j \in DOMAIN symbols : i # j => symbols[i] # symbols[j]

Thm_C12 ==
  (ChallengeOpen /\ challenge.box_size = 3 /\ challenge.difficulty = "easy") =>
    /\ challenge.removal_rate \in 400..500
    /\ Cardinality(EmptyCells(9, challenge.puzzle)) \in 32..40

\* an easy 9x9 puzzle drawn with the upper end of the range, 0.5: 40 of
\* the 81 cells are removed
Wit_C12 ==
  /\ ChallengeOpen
  /\ challenge.box_size = 3
  /\ challenge.difficulty = "easy"
  /\ challenge.removal_rate = 500
  /\ Cardinality(EmptyCells(9, challenge.puzzle)) = 40

\* an easy 9x9 puzzle drawn with the lower end of the range, 0.4: 32 cells
\* are removed
Low_C12 ==
  /\ ChallengeOpen
  /\ challenge.box_size = 3
  /\ challenge.difficulty = "easy"
  /\ challenge.removal_rate = 400
  /\ Cardinality(EmptyCells(9, challenge.puzzle)) = 32

----------------------------------------------------------------------------
(* Claims about the solver on the puzzles *)

\* the complete conflict-free 4x4 grids that agree with b on its filled cells
Completions4(b) == {g \in ValidGrids4 : Extends(g, b)}

----------------------------------------------------------------------------
(* Claims about check_solution and the history *)

\* the text of every entry of the challenge window is the solution's cell
GridIsSolution ==
  \A x \in Cells(challenge.n) :
    challenge.entries[x[1] + 1][x[2] + 1].text = challenge.solution[x[1] + 1][x[2] + 1]

\* C14: check_solution reports success if and only if every cell of the
\* grid equals the solution's cell: a grid that differs in one cell is
\* rejected, and so is a complete conflict-free grid other than the
\* solution.
Thm_C14 ==
  (ChallengeOpen /\ challenge.message # "") =>
    (challenge.message = "correct" <=> GridIsSolution)

\* a rejected grid that is a complete conflict-free completion of the
\* puzzle and differs from the solution
Wit_C14 ==
  /\ ChallengeOpen
  /\ challenge.message = "incorrect"
  /\ Complete(get_current_state(challenge))
  /\ NoDuplicate(get_current_state(challenge))
  /\ Extends(get_current_state(challenge), challenge.puzzle)
  /\ ~GridIsSolution

\* a rejected grid that differs from the solution in one cell, which holds
\* another symbol
One_C14 ==
  /\ ChallengeOpen
  /\ challenge.message = "incorrect"
  /\ Complete(get_current_state(challenge))
  /\ Cardinality(Differing(challenge.n, get_current_state(challenge), challenge.solution)) = 1

\* an accepted grid that the user typed
Acc_C14 ==
  /\ ChallengeOpen
  /\ challenge.message = "correct"
  /\ \E x \in Cells(challenge.n) : challenge.entries[x[1] + 1][x[2] + 1].color = Orange

\* C15: a record of the history is never changed after it was appended:
\* whatever the windows do next (solve, clear, new_sudoku, a challenge
\* check), every record keeps its place and its content, and the list only
\* grows at its end.
Cex_C15 ==
  [][\A i \in 1..Len(history) :
       /\ Len(history') >= i
       /\ history'[i] = history[i]]_vars

\* C20: solve() of the main window calls the solver only when the red
\* input has at least one filled cell and differs from last_input, and it
\* sets last_input to that input before the call, whether the call returns
\* True or False; so a second press of solve on an unchanged unsolvable
\* input makes no call, and leaves board, last_input and history as they
\* were.
Thm_C20 ==
  [][win'.runs # win.runs =>
       LET original_input == get_original_input(win)
       IN  /\ \E x \in Cells(win.n) : original_input[x[1] + 1][x[2] + 1] # ""
           /\ win.last_input # original_input
           /\ win'.last_input = original_input
           /\ input' = original_input
           /\ ret' \in {"True", "False"}
           /\ ret' = "False" => (win'.board = original_input /\ history' = history)]_vars

\* the solver has returned False on the input that the entries still hold:
\* the second press of solve finds the input unchanged
Wit_C20 ==
  /\ win.alive
  /\ ~win.crashed
  /\ win.runs = 1
  /\ ret = "False"
  /\ win.last_input = get_original_input(win)
  /\ \E x \in Cells(win.n) : win.last_input[x[1] + 1][x[2] + 1] # ""

\* C16: the history grows only by one record at a time, appended either by
\* a solve() of the main window whose call of the solver returned True or
\* by a check_solution whose grid equals the solution; a failed solve, a
\* rejected check, show_solution, clear, new_sudoku and generate_puzzle
\* append nothing.
Thm_C16 ==
  [][Len(history') > Len(history) =>
       /\ Len(history') = Len(history) + 1
       /\ SubSeq(history', 1, Len(history)) = history
       /\ \/ /\ win'.runs = win.runs + 1
             /\ ret' = "True"
             /\ history'[Len(history')] =
                  [input |-> input', result |-> board',
                   symbols |-> symbols', size |-> win.box_size]
             /\ challenge' = challenge
          \/ /\ ChallengeOpen
             /\ challenge'.message = "correct"
             /\ get_current_state(challenge) = challenge.solution
             /\ history'[Len(history')] = challenge_record(challenge)
             /\ win' = win]_vars

\* a solve() whose call of the solver returned False has left the history
\* empty
Wit_C16 ==
  /\ win.alive
  /\ win.runs >= 1
  /\ ret = "False"
  /\ win.board = input
  /\ history = << >>

\* a solve() whose call returned True has appended its record
Solved_C16 ==
  /\ win.runs >= 1
  /\ ret = "True"
  /\ Len(history) = 1
  /\ history[1].input = input

\* a rejected check has left the history empty
Rejected_C16 ==
  /\ ChallengeOpen
  /\ challenge.message = "incorrect"
  /\ history = << >>

----------------------------------------------------------------------------
(* Claims about the run of solve_sudoku *)

\* C17: every call of solve_sudoku terminates, with True or with False,
\* whatever the board and the alphabet.
Thm_C17 == <>(Done /\ stack = << >> /\ ret \in {"True", "False"})

\* a call has ended with False after a search that made trial assignments
\* and undid them all
Wit_C17 ==
  /\ Done
  /\ ret = "False"
  /\ FirstEmpty(input) # << >>
  /\ \E i \in 1..Len(symbols) :
       is_valid(input, FirstEmpty(input)[1], FirstEmpty(input)[2], symbols[i], symbols)

\* C18 as stated: the number of nested active calls of solve_sudoku never
\* exceeds n * n, also on the run from the empty board that ends in
\* success.
Cex_C18 == Len(stack) <= Len(board) * Len(board)

\* C18 as amended: the number of nested active calls never exceeds the
\* number of empty cells of the input plus one, hence never n * n + 1: one
\* call for each empty cell, and the call that finds no empty cell.
Thm_C18 ==
  /\ Len(stack) <= Cardinality(EmptyCells(Len(input), input)) + 1
  /\ Len(stack) <= Len(board) * Len(board) + 1

\* the run from the empty board has n * n + 1 active calls: the last one is
\* about to find the board full
Wit_C18 ==
  /\ input = EmptyBoard(Len(board))
  /\ Len(stack) = Len(board) * Len(board) + 1
  /\ pc = "scan"
  /\ Complete(board)

----------------------------------------------------------------------------
(* Claims about the solution the puzzles lead back to *)

\* the place of symbol v in the alphabet syms
IndexOf(v, syms) == CHOOSE i \in 1..Len(syms) : syms[i] = v

\* complete grid g comes before complete grid h, or is h, when the cells are
\* read in row-major order and the symbols compared by their place in syms
LexLeq(g, h, syms) ==
  LET n == Len(g)
      cell(b, x) == b[(x \div n) + 1][(x % n) + 1]
  IN  \/ g = h
      \/ \E x \in 0..(n * n - 1) :
           /\ \A y \in 0..(x - 1) : cell(g, y) = cell(h, y)
           /\ IndexOf(cell(g, x), syms) < IndexOf(cell(h, x), syms)

\* the least of the complete conflict-free 4x4 grids
LeastGrid4 ==
  CHOOSE g \in ValidGrids4 :
    \A h \in ValidGrids4 : LexLeq(g, h, Prefix(DigitString, 4))

\* C19: for k = 2 and 3 and every set of cleared cells, solve_sudoku on the
\* puzzle ends with the stored solution, whether or not the puzzle has
\* other completions; for the 4x4 puzzles the result is the least of the
\* puzzle's completions in row-major order under the alphabet order, and
\* the stored solution is the least of all complete conflict-free grids.
Thm_C19 ==
  Done =>
    /\ ret = "True"
    /\ board = Solution(isqrt(Len(input)))
    /\ Len(input) = 4 =>
         /\ Extends(board, input)
         /\ \A g \in ValidGrids4 : Extends(g, input) => LexLeq(board, g, symbols)
         /\ LeastGrid4 = Solution(2)

\* a puzzle with several completions has led back to the stored solution
Wit_C19 ==
  /\ Done
  /\ Len(input) = 4
  /\ Cardinality(Completions4(input)) > 1
  /\ board = Solution(2)
  /\ \E g \in Completions4(input) : g # board /\ LexLeq(board, g, symbols)

\* a 9x9 puzzle has led back to the stored solution
Nine_C19 ==
  /\ Done
  /\ Len(input) = 9
  /\ input # board
  /\ board = Solution(3)

----------------------------------------------------------------------------
(* Claims about the dimensions of the main window and the challenge records *)

\* C21: after any sequence of new_sudoku (its dialogs accepted, cancelled
\* or answered with a text of the wrong length), solve and clear, the
\* dimensions of the main window agree: n = box_size * box_size, and the
\* board, the entries and the symbols all have length n.
Cex_C21 ==
  /\ win.n = win.box_size * win.box_size
  /\ Len(win.board) = win.n
  /\ Len(win.entries) = win.n
  /\ Len(win.symbols) = win.n

\* C22: in every record of a solved challenge the puzzle grid and the input
\* grid share out the result: each cell is filled in exactly one of the
\* two, and there it holds the result's cell, whatever fills, show_solution
\* and generate_puzzle calls came before the successful check_solution.
Cex_C22 ==
  \A k \in 1..Len(history) :
    LET rec == history[k]
    IN  "mode" \in DOMAIN rec =>
          \A x \in Cells(Len(rec.result)) :
            LET p == rec.puzzle[x[1] + 1][x[2] + 1]
                u == rec.input[x[1] + 1][x[2] + 1]
                v == rec.result[x[1] + 1][x[2] + 1]
            IN  \/ p = v /\ u = ""
                \/ u = v /\ p = ""

====
